---- MODULE Spec2Model ----
(***************************************************************************)
(* Timeline playback and capture engine of the storyboard editor           *)
(* (src/app/page.tsx, component HomePage).                                 *)
(*                                                                         *)
(* Every action is one run-to-completion event handler of the single       *)
(* threaded page: a click handler, a display-refresh callback, an encoder  *)
(* event, or the unmount of the component.  The React commit that follows  *)
(* a handler (re-render, effect cleanups, effects) is part of the action.  *)
(*                                                                         *)
(* Units.  Slide.duration is a number of seconds; it is kept here as an    *)
(* integer count of half milliseconds (2000 per second), so that           *)
(* Math.round(duration * 1000) is a real rounding.  Times are integer      *)
(* milliseconds.  performance.now() has an arbitrary origin: the model     *)
(* moves the origin to the instant a loop takes `start = now`.             *)
(***************************************************************************)
EXTENDS Integers, Sequences, FiniteSets, TLC

VARIABLES
    slides,             \* useState: Seq of [id, duration]
    isPlaying,          \* useState
    isRecording,        \* useState
    statusMessage,      \* useState: "none" stands for null
    recordedUrl,        \* useState: 0 stands for null, k > 0 is an object URL
    animationRef,       \* useRef: 0 stands for undefined, else a request id
    playingRef,         \* useRef: the liveness flag
    recorderRef,        \* useRef: 0 stands for null, else a recorder
    recordedChunksRef,  \* useRef: Seq of fragments
    mounted,            \* the component is mounted (canvasRef.current is set)
    frame,              \* what the last drawFrame call painted
    now,                \* the clock read by performance.now() and the refresh
    pending,            \* the refresh callbacks requested and not yet run
    recorders,          \* the MediaRecorder objects that exist
    trackStops,         \* per recorder: how often its stream's tracks were stopped
    events,             \* encoder events fired and not yet handled (FIFO)
    liveUrls,           \* object URLs created and not revoked
    artifact,           \* per live object URL: the fragments of its Blob
    encoder,            \* the browser's encoder service (global MediaRecorder)
    lastOp              \* the handler that ran last, and what it did

vars == <<slides, isPlaying, isRecording, statusMessage, recordedUrl,
          animationRef, playingRef, recorderRef, recordedChunksRef, mounted,
          frame, now, pending, recorders, trackStops, events, liveUrls,
          artifact, encoder, lastOp>>

\* everything but the record of the last handler
progVars == <<slides, isPlaying, isRecording, statusMessage, recordedUrl,
              animationRef, playingRef, recorderRef, recordedChunksRef,
              mounted, frame, now, pending, recorders, trackStops, events,
              liveUrls, artifact, encoder>>

-----------------------------------------------------------------------------
(* Bounds of the model *)

MaxSlides == 2          \* addSlide is not taken beyond this many slides
MaxLive == 2            \* recorders that can exist at the same time
MaxFrags == 1           \* timeslice fragments an encoder emits before it stops
TrackStopCap == 2       \* trackStops saturates here ("twice or more")

\* createSlide: duration 4 (seconds), in half milliseconds
DefaultDuration == 8000

\* values typed into the duration field (half milliseconds): 0 (or not a
\* number), 0.5 s, 4 s
DurationInputs == {0, 1000, 8000}

\* clock advance between two refresh callbacks, in ms
TickDeltas == {2000, 7000}

Sessions == 1..MaxLive

-----------------------------------------------------------------------------
(* Timeline Builder and Frame Mapper *)

Max(a, b) == IF a >= b THEN a ELSE b
Min(a, b) == IF a <= b THEN a ELSE b

\* Math.round(duration * 1000): halves round towards +infinity
RoundMs(duration) == (duration + 1) \div 2

SegmentMs_NoFloor(slide) == RoundMs(slide.duration)

SegmentMs(slide) == Max(1, RoundMs(slide.duration))

RECURSIVE SumMs(_)
SumMs(segs) ==
    IF segs = <<>> THEN 0 ELSE Head(segs).durationMs + SumMs(Tail(segs))

\* useMemo timeline
Timeline(sl) ==
    LET segments == [i \in 1..Len(sl) |->
                        [id |-> sl[i].id, durationMs |-> SegmentMs(sl[i])]]
    IN  [segments |-> segments, totalDurationMs |-> Max(SumMs(segments), 1)]

\* the test of the scan loop of drawFrame; i is 1-based here
SegmentMatches_Inverted(remaining, durationMs, i, n) ==
    remaining >= durationMs \/ i = n

SegmentMatches_Strict(remaining, durationMs, i, n) ==
    remaining < durationMs \/ i = n

SegmentMatches(remaining, durationMs, i, n) ==
    remaining <= durationMs \/ i = n

RECURSIVE ScanSegments(_, _, _)
ScanSegments(segs, i, remaining) ==
    IF SegmentMatches(remaining, segs[i].durationMs, i, Len(segs))
    THEN [index |-> i - 1, remaining |-> remaining,
          durationMs |-> segs[i].durationMs]
    ELSE ScanSegments(segs, i + 1, remaining - segs[i].durationMs)

FrameMap_NoLowerClamp(sl, elapsedMs) ==
    LET tl == Timeline(sl)
        clamped == Min(elapsedMs, tl.totalDurationMs - 1)
        hit == ScanSegments(tl.segments, 1, clamped)
    IN  [index |-> hit.index, num |-> hit.remaining, den |-> hit.durationMs]

FrameMap_NoUpperClamp(sl, elapsedMs) ==
    LET tl == Timeline(sl)
        clamped == Max(0, elapsedMs)
        hit == ScanSegments(tl.segments, 1, clamped)
    IN  [index |-> hit.index, num |-> hit.remaining, den |-> hit.durationMs]

\* the frame mapping of drawFrame: progress is num / den
FrameMap(sl, elapsedMs) ==
    LET tl == Timeline(sl)
        clamped == Max(0, Min(elapsedMs, tl.totalDurationMs - 1))
        hit == ScanSegments(tl.segments, 1, clamped)
    IN  [index |-> hit.index,
         num |-> IF hit.durationMs = 0 THEN 0 ELSE hit.remaining,
         den |-> IF hit.durationMs = 0 THEN 1 ELSE hit.durationMs]

\* the canvas before anything is painted
Blank == [index |-> 0, num |-> 0, den |-> 1]

\* drawFrame: no canvas or no slides paints nothing
DrawFrame(cur, canvas, sl, elapsedMs) ==
    IF ~canvas \/ Len(sl) = 0 THEN cur ELSE FrameMap(sl, elapsedMs)

-----------------------------------------------------------------------------
(* Slides *)

SlideIds(sl) == {sl[i].id : i \in 1..Len(sl)}

\* crypto.randomUUID(): an id no slide has
FreshSlideId(sl) == CHOOSE i \in 1..(Len(sl) + 1) : i \notin SlideIds(sl)

createSlide(sl) == [id |-> FreshSlideId(sl), duration |-> DefaultDuration]

INITIAL_SLIDES ==
    LET first == createSlide(<<>>)
    IN  <<first, createSlide(<<first>>)>>

DurationAsTyped(v) == v

\* Math.max(1, Number(value) || 1), in half milliseconds
DurationFromInput(v) == IF v = 0 THEN 2000 ELSE Max(2000, v)

FindIndex(sl, id) ==
    IF id \in SlideIds(sl)
    THEN CHOOSE i \in 1..Len(sl) :
            sl[i].id = id /\ \A j \in 1..(i - 1) : sl[j].id # id
    ELSE 0

RemoveAt(s, i) == SubSeq(s, 1, i - 1) \o SubSeq(s, i + 1, Len(s))
InsertAt(s, i, x) == SubSeq(s, 1, i - 1) \o <<x>> \o SubSeq(s, i, Len(s))

updateSlideList(sl, id, duration) ==
    [i \in 1..Len(sl) |->
        IF sl[i].id = id THEN [sl[i] EXCEPT !.duration = duration] ELSE sl[i]]

removeSlideList(sl, id) ==
    IF Len(sl) <= 1 THEN sl ELSE SelectSeq(sl, LAMBDA s : s.id # id)

\* index and target are 1-based here
moveSlideList(sl, id, direction) ==
    LET index == FindIndex(sl, id)
        target == index + direction
    IN  IF index < 1 \/ target < 1 \/ target > Len(sl)
        THEN sl
        ELSE InsertAt(RemoveAt(sl, index), target, sl[index])

-----------------------------------------------------------------------------
(* The display-refresh scheduler *)

\* A requested callback is a closure: `kind` tells which tick it is, `slides`
\* is the slide list its drawFrame and timeline were built from, `rec` the
\* recorder of a capture tick.  `cancelled` remembers that stopPlayback has
\* run since the loop was started.
RequestIds(pend) == {t.id : t \in pend}

\* requestAnimationFrame returns an id that names no other pending request.
\* Every call site stores the id in animationRef.current at once, so the id
\* of a request that has run or was cancelled can be handed out again.
FreshRequestId(pend) ==
    CHOOSE i \in 1..(Cardinality(pend) + 1) :
        /\ i \notin RequestIds(pend)
        /\ \A j \in 1..(i - 1) : j \in RequestIds(pend)

CancelNothing(pend, id) == pend

cancelAnimationFrame(pend, id) == {t \in pend : t.id # id}

StopPlaybackKeeps(pend, ref) == pend

\* stopPlayback: if (animationRef.current) cancelAnimationFrame(...)
StopPlaybackCancel(pend, ref) ==
    IF ref # 0 THEN cancelAnimationFrame(pend, ref) ELSE pend

\* runTimeline: if (animationRef.current) cancelAnimationFrame(...)
RunTimelineCancel(pend, ref) ==
    IF ref # 0 THEN cancelAnimationFrame(pend, ref) ELSE pend

KeepPending(pend, ref) == pend

\* renderVideo: if (animationRef.current) cancelAnimationFrame(...)
RenderVideoCancel(pend, ref) ==
    IF ref # 0 THEN cancelAnimationFrame(pend, ref) ELSE pend

MarkCancelled(pend) == {[t EXCEPT !.cancelled = TRUE] : t \in pend}

\* the clock origin moves to t
Rebase(pend, t) == {[p EXCEPT !.start = @ - t] : p \in pend}

\* with nothing scheduled no reading of the clock is kept
NowAfter(pend, t) == IF pend = {} THEN 0 ELSE t

\* a state setter does nothing once the component is unmounted
SetState(cur, v) == IF mounted THEN v ELSE cur

Op(op, out) ==
    [op |-> op, out |-> out, rec |-> 0, rendered |-> FALSE,
     scheduled |-> FALSE, completed |-> FALSE, stale |-> FALSE,
     signalled |-> FALSE, stops |-> 0, mime |-> "none"]

-----------------------------------------------------------------------------
(* The encoder (MediaRecorder) and its stream *)

NoFrag == [rec |-> 0, seq |-> 0, size |-> 0]
NoRecorder ==
    [state |-> "none", url |-> 0, emitted |-> <<>>, stopSignal |-> FALSE]

\* a recorder whose stop event has been handled fires nothing more: of its
\* record only the state is kept
Finished == [NoRecorder EXCEPT !.state = "inactive"]

FragSizes == {0, 1}

NextFrag(recs, k, size) ==
    [rec |-> k, seq |-> Len(recs[k].emitted) + 1, size |-> size]

\* the recorder stops gathering: a last dataavailable, then stop
HaltEvents(recs, k, size) ==
    << [rec |-> k, type |-> "data", frag |-> NextFrag(recs, k, size)],
       [rec |-> k, type |-> "stop", frag |-> NoFrag] >>

Halted(recs, k, size) ==
    [recs EXCEPT ![k].state = "inactive",
                 ![k].emitted = Append(@, NextFrag(recs, k, size))]

IsRecordingNow(recs, k) == k # 0 /\ recs[k].state = "recording"

\* A recorder can still act while it records, while an event of it awaits
\* its handler, or while a requested callback holds it.  The name of a
\* recorder that cannot act any more is given to the next recorder.
CanAct(recs, evs, pend, k) ==
    \/ recs[k].state = "recording"
    \/ \E i \in 1..Len(evs) : evs[i].rec = k
    \/ \E t \in pend : t.rec = k

FreeNames(recs, evs, pend) ==
    {k \in Sessions : ~CanAct(recs, evs, pend, k)}

NewRecorder(recs, evs, pend) ==
    CHOOSE k \in FreeNames(recs, evs, pend) :
        \A j \in FreeNames(recs, evs, pend) : k <= j

\* sizes the last fragment of recorder k can have, were it stopped now
LastSizes(recs, k) == IF IsRecordingNow(recs, k) THEN FragSizes ELSE {0}

TracksLeftRunning(ts, k) == ts

\* stream.getTracks().forEach(track => track.stop()) on the stream of session k
TracksStopped(ts, k) ==
    IF k = 0 THEN ts ELSE [ts EXCEPT ![k] = Min(@ + 1, TrackStopCap)]

\* a recorder whose tracks have all ended stops by itself
RecordersAfterTrackStop(recs, k, size) ==
    IF IsRecordingNow(recs, k) THEN Halted(recs, k, size) ELSE recs

HaltIsSilent(evs, recs, k, size) == evs

EventsAfterHalt(evs, recs, k, size) ==
    IF IsRecordingNow(recs, k) THEN evs \o HaltEvents(recs, k, size) ELSE evs

-----------------------------------------------------------------------------
(* Format negotiation: selectMimeType *)

\* const candidates = [...], in the order of preference
Candidates == <<"video/webm;codecs=vp9", "video/webm;codecs=vp8", "video/webm">>

\* what MediaRecorder.isTypeSupported does when called: it returns true, it
\* returns false, or it throws (or is not there to be called)
Answers == {"true", "false", "throws"}

\* an encoder service: whether the global MediaRecorder is defined, and what
\* its isTypeSupported does for each candidate
Encoders ==
    [available : BOOLEAN, answers : [1..Len(Candidates) -> Answers]]

\* a browser that supports every candidate
FullEncoder ==
    [available |-> TRUE, answers |-> [i \in 1..Len(Candidates) |-> "true"]]

ProbeLetsThrow(answer) == answer

\* try { return MediaRecorder.isTypeSupported(candidate) } catch { return false }
Probe(answer) == IF answer = "throws" THEN "false" ELSE answer

\* candidates.find(...): the first candidate whose probe is true, undefined
\* when there is none; a probe that throws ends the search with its exception
RECURSIVE Find(_, _)
Find(enc, i) ==
    IF i > Len(Candidates) THEN "undefined"
    ELSE IF Probe(enc.answers[i]) = "true" THEN Candidates[i]
    ELSE IF Probe(enc.answers[i]) = "throws" THEN "thrown"
    ELSE Find(enc, i + 1)

\* selectMimeType: "undefined" stands for undefined, "thrown" for an
\* exception that leaves the function
selectMimeType(enc) ==
    IF ~enc.available THEN "undefined" ELSE Find(enc, 1)

-----------------------------------------------------------------------------
(* Object URLs *)

revokeObjectURL(live, url) == live \ {url}

KeepUrl(live, url) == live

\* cleanup of the effect on [recordedUrl]: if (recordedUrl) revoke it
RecordedUrlCleanup(live, url) ==
    IF url # 0 THEN revokeObjectURL(live, url) ELSE live

\* URL.createObjectURL returns a URL that is neither live nor held anywhere
FreshUrl(held) ==
    CHOOSE u \in 1..(Cardinality(held) + 1) :
        u \notin held /\ \A v \in 1..(u - 1) : v \in held

\* the Blob of a revoked URL is released
Blobs(art, live) == [u \in live |-> art[u]]

-----------------------------------------------------------------------------
(* Initial state: the component has mounted and its effects have run *)

Init ==
    /\ slides = INITIAL_SLIDES
    /\ isPlaying = FALSE
    /\ isRecording = FALSE
    /\ statusMessage = "none"
    /\ recordedUrl = 0
    /\ animationRef = 0
    /\ playingRef = FALSE
    /\ recorderRef = 0
    /\ recordedChunksRef = <<>>
    /\ mounted = TRUE
    /\ frame = DrawFrame(Blank, TRUE, INITIAL_SLIDES, 0)
    /\ now = 0
    /\ pending = {}
    /\ recorders = [k \in Sessions |-> NoRecorder]
    /\ trackStops = [k \in Sessions |-> 0]
    /\ events = <<>>
    /\ liveUrls = {}
    /\ artifact = [u \in {} |-> <<>>]
    /\ encoder = FullEncoder
    /\ lastOp = Op("mount", "done")

-----------------------------------------------------------------------------
(* Preview: playPreview / stopPreview *)

\* runTimeline rejects an empty slide list
RunTimelineRejects(sl) == Len(sl) = 0

\* playPreview = runTimeline(true); the button shows it while isPlaying is
\* false and is disabled while isRecording
PlayPreview ==
    /\ mounted /\ ~isRecording /\ ~isPlaying
    /\ IF RunTimelineRejects(slides)
       THEN /\ lastOp' = Op("runTimeline", "rejected")
            /\ UNCHANGED progVars
       ELSE LET kept == RunTimelineCancel(pending, animationRef)
                id == FreshRequestId(kept)
                tick == [id |-> id, kind |-> "preview", loop |-> TRUE,
                         start |-> now, slides |-> slides, rec |-> 0,
                         cancelled |-> FALSE]
            IN  /\ pending' = Rebase(kept \cup {tick}, now)
                /\ now' = 0
                /\ playingRef' = TRUE
                /\ isPlaying' = TRUE
                /\ frame' = DrawFrame(frame, mounted, slides, 0)
                /\ animationRef' = id
                /\ lastOp' = [Op("runTimeline", "started") EXCEPT
                                !.rendered = TRUE, !.scheduled = TRUE]
                /\ UNCHANGED <<slides, isRecording, statusMessage, recordedUrl,
                               recorderRef, recordedChunksRef, mounted,
                               recorders, trackStops, events, liveUrls,
                               artifact,
                   encoder>>

\* stopPreview = stopPlayback()
StopPreview ==
    /\ mounted /\ ~isRecording /\ isPlaying
    /\ playingRef' = FALSE
    /\ isPlaying' = FALSE
    /\ pending' = MarkCancelled(StopPlaybackCancel(pending, animationRef))
    /\ now' = NowAfter(pending', now)
    /\ lastOp' = Op("stopPlayback",
                     IF \E t \in pending : t.id = animationRef
                     THEN "cancelled" ELSE "done")
    /\ UNCHANGED <<slides, isRecording, statusMessage, recordedUrl,
                   animationRef, recorderRef, recordedChunksRef, mounted,
                   frame, recorders, trackStops, events, liveUrls, artifact,
                   encoder>>

-----------------------------------------------------------------------------
(* The refresh callbacks *)

\* a callback whose first test, if (!playingRef.current) return, ends it
TickReturnsEarly(t) ==
    /\ pending' = pending \ {t}
    /\ lastOp' = [Op("tick", "idle") EXCEPT !.stale = t.cancelled, !.rec = t.rec]
    /\ UNCHANGED <<slides, isPlaying, isRecording, statusMessage, recordedUrl,
                   animationRef, playingRef, recorderRef, recordedChunksRef,
                   mounted, frame, recorders, trackStops, events, liveUrls,
                   artifact,
                   encoder>>

\* tick of runTimeline
PreviewTick(t, dt) ==
    /\ t \in pending /\ t.kind = "preview"
    /\ LET rest == pending \ {t}
           t1 == now + dt
           elapsed == t1 - t.start
           total == Timeline(t.slides).totalDurationMs
           id == FreshRequestId(rest)
       IN  IF ~playingRef
           THEN TickReturnsEarly(t) /\ now' = NowAfter(rest, t1)
           ELSE IF elapsed >= total
           THEN /\ frame' = DrawFrame(frame, mounted, t.slides, total - 1)
                /\ IF t.loop
                   THEN /\ pending' = Rebase(rest \cup
                                {[t EXCEPT !.id = id, !.start = t1]}, t1)
                        /\ now' = 0
                        /\ animationRef' = id
                        /\ lastOp' = [Op("tick", "looped") EXCEPT
                                        !.rendered = TRUE, !.scheduled = TRUE,
                                        !.stale = t.cancelled]
                        /\ UNCHANGED <<playingRef, isPlaying>>
                   ELSE /\ pending' = rest
                        /\ now' = NowAfter(rest, t1)
                        /\ playingRef' = FALSE
                        /\ isPlaying' = SetState(isPlaying, FALSE)
                        /\ lastOp' = [Op("tick", "finished") EXCEPT
                                        !.rendered = TRUE, !.completed = TRUE,
                                        !.stale = t.cancelled]
                        /\ UNCHANGED animationRef
                /\ UNCHANGED <<slides, isRecording, statusMessage, recordedUrl,
                               recorderRef, recordedChunksRef, mounted,
                               recorders, trackStops, events, liveUrls,
                               artifact,
                   encoder>>
           ELSE /\ frame' = DrawFrame(frame, mounted, t.slides, elapsed)
                /\ pending' = rest \cup {[t EXCEPT !.id = id]}
                /\ now' = t1
                /\ animationRef' = id
                /\ lastOp' = [Op("tick", "frame") EXCEPT
                                !.rendered = TRUE, !.scheduled = TRUE,
                                !.stale = t.cancelled]
                /\ UNCHANGED <<slides, isPlaying, isRecording, statusMessage,
                               recordedUrl, playingRef, recorderRef,
                               recordedChunksRef, mounted, recorders,
                               trackStops, events, liveUrls, artifact,
                   encoder>>

StopNotCalled(recs, k, size) == recs

\* recorder.stop(): nothing to do on a recorder that is not recording
RecordersAfterStop(recs, k, size) ==
    IF IsRecordingNow(recs, k)
    THEN [Halted(recs, k, size) EXCEPT ![k].stopSignal = TRUE]
    ELSE [recs EXCEPT ![k].stopSignal = TRUE]

\* tick of renderVideo
CaptureTick(t, dt, size) ==
    /\ t \in pending /\ t.kind = "capture"
    /\ LET rest == pending \ {t}
           t1 == now + dt
           elapsed == t1 - t.start
           total == Timeline(t.slides).totalDurationMs
           id == FreshRequestId(rest)
       IN  IF ~playingRef
           THEN TickReturnsEarly(t) /\ now' = NowAfter(rest, t1)
           ELSE IF elapsed >= total
           THEN /\ frame' = DrawFrame(frame, mounted, t.slides, total - 1)
                /\ playingRef' = FALSE
                /\ isPlaying' = SetState(isPlaying, FALSE)
                /\ recorders' = RecordersAfterStop(recorders, t.rec, size)
                /\ events' = EventsAfterHalt(events, recorders, t.rec, size)
                /\ pending' = rest
                /\ now' = NowAfter(rest, t1)
                /\ lastOp' = [Op("tick", "finished") EXCEPT
                                !.rendered = TRUE, !.completed = TRUE,
                                !.stale = t.cancelled, !.rec = t.rec]
                /\ UNCHANGED <<slides, isRecording, statusMessage, recordedUrl,
                               animationRef, recorderRef, recordedChunksRef,
                               mounted, trackStops, liveUrls, artifact,
                   encoder>>
           ELSE /\ frame' = DrawFrame(frame, mounted, t.slides, elapsed)
                /\ pending' = rest \cup {[t EXCEPT !.id = id]}
                /\ now' = t1
                /\ animationRef' = id
                /\ lastOp' = [Op("tick", "frame") EXCEPT
                                !.rendered = TRUE, !.scheduled = TRUE,
                                !.stale = t.cancelled, !.rec = t.rec]
                /\ UNCHANGED <<slides, isPlaying, isRecording, statusMessage,
                               recordedUrl, playingRef, recorderRef,
                               recordedChunksRef, mounted, recorders,
                               trackStops, events, liveUrls, artifact,
                   encoder>>

-----------------------------------------------------------------------------
(* Capture: renderVideo and the encoder's events *)

RenderVideoRejects_EmptyOnly(sl, recording) == Len(sl) = 0

\* if (slides.length === 0 || isRecording) return
RenderVideoRejects(sl, recording) == Len(sl) = 0 \/ recording

CatchLeavesTracks(stops) == stops

\* catch: stream.getTracks().forEach(track => track.stop()), on the stream
\* renderVideo has just opened; stops counts the stops of its tracks
CatchStopsTracks(stops) == Min(stops + 1, TrackStopCap)

\* renderVideo.  streamOk: canvas.captureStream(30) returns a stream rather
\* than throwing; ctorOk: new MediaRecorder(...) returns rather than throwing.
RenderVideo(streamOk, ctorOk) ==
    /\ mounted
    /\ IF RenderVideoRejects(slides, isRecording)
       THEN /\ lastOp' = Op("renderVideo", "rejected")
            /\ UNCHANGED progVars
       ELSE IF ~streamOk
       THEN \* thrown before the try block is entered
            /\ lastOp' = Op("renderVideo", "uncaught")
            /\ UNCHANGED progVars
       ELSE LET kept == RenderVideoCancel(pending, animationRef)
                free == FreeNames(recorders, events, kept)
            IN  /\ recordedChunksRef' = <<>>
                /\ IF ~ctorOk
                   THEN /\ statusMessage' = "unsupported"
                        /\ playingRef' = FALSE
                        /\ isPlaying' = FALSE
                        /\ isRecording' = FALSE
                        /\ pending' = kept
                        /\ now' = NowAfter(kept, now)
                        /\ lastOp' = [Op("renderVideo", "encoderFailed")
                                         EXCEPT !.stops = CatchStopsTracks(0),
                                                !.mime = selectMimeType(encoder)]
                        /\ UNCHANGED <<recorderRef, recorders, trackStops,
                                       frame, animationRef>>
                   ELSE /\ free # {}
                        /\ LET k == NewRecorder(recorders, events, kept)
                               id == FreshRequestId(kept)
                               tick == [id |-> id, kind |-> "capture",
                                        loop |-> FALSE, start |-> now,
                                        slides |-> slides, rec |-> k,
                                        cancelled |-> FALSE]
                           IN  /\ recorderRef' = k
                               /\ recorders' = [recorders EXCEPT ![k] =
                                      [state |-> "recording",
                                       url |-> recordedUrl,
                                       emitted |-> <<>>,
                                       stopSignal |-> FALSE]]
                               /\ trackStops' = [trackStops EXCEPT ![k] = 0]
                               /\ pending' = Rebase(kept \cup {tick}, now)
                               /\ animationRef' = id
                               /\ lastOp' = [Op("renderVideo",
                                                IF kept # pending
                                                THEN "startedOverPreview"
                                                ELSE "started") EXCEPT
                                                !.rec = k, !.rendered = TRUE,
                                                !.scheduled = TRUE,
                                                !.mime = selectMimeType(encoder)]
                        /\ isRecording' = TRUE
                        /\ statusMessage' = "rendering"
                        /\ playingRef' = TRUE
                        /\ isPlaying' = TRUE
                        /\ frame' = DrawFrame(frame, mounted, slides, 0)
                        /\ now' = 0
                /\ UNCHANGED <<slides, recordedUrl, mounted, events,
                               liveUrls, artifact,
                   encoder>>

KeepsEveryFragment(frag) == TRUE

\* ondataavailable: if (event.data && event.data.size > 0)
KeepsFragment(frag) == frag.size > 0

ChunksAfterData(chunks, frag) ==
    IF KeepsFragment(frag) THEN Append(chunks, frag) ELSE chunks

\* recorder.start(200): every timeslice the encoder of a recording hands a
\* fragment to ondataavailable
TimesliceData(k, size) ==
    /\ IsRecordingNow(recorders, k)
    /\ Len(recorders[k].emitted) < MaxFrags
    /\ recorders' = [recorders EXCEPT
                        ![k].emitted = Append(@, NextFrag(recorders, k, size))]
    /\ recordedChunksRef' =
          ChunksAfterData(recordedChunksRef, NextFrag(recorders, k, size))
    /\ lastOp' = [Op("ondataavailable", "timeslice") EXCEPT !.rec = k]
    /\ UNCHANGED <<slides, isPlaying, isRecording, statusMessage, recordedUrl,
                   animationRef, playingRef, recorderRef, mounted, frame, now,
                   pending, trackStops, events, liveUrls, artifact,
                   encoder>>

\* ondataavailable for the last fragment, fired when the recorder stopped
OnDataAvailable ==
    /\ events # <<>> /\ Head(events).type = "data"
    /\ events' = Tail(events)
    /\ recordedChunksRef' = ChunksAfterData(recordedChunksRef, Head(events).frag)
    /\ lastOp' = [Op("ondataavailable", "last") EXCEPT !.rec = Head(events).rec]
    /\ UNCHANGED <<slides, isPlaying, isRecording, statusMessage, recordedUrl,
                   animationRef, playingRef, recorderRef, mounted, frame, now,
                   pending, recorders, trackStops, liveUrls, artifact,
                   encoder>>

\* onstop of recorder k; its closure holds the recordedUrl of the render in
\* which renderVideo was called
OnStop ==
    /\ events # <<>> /\ Head(events).type = "stop"
    /\ LET k == Head(events).rec
           closureUrl == recorders[k].url
           revoked == IF closureUrl # 0
                      THEN revokeObjectURL(liveUrls, closureUrl) ELSE liveUrls
           url == FreshUrl(liveUrls \cup {recordedUrl, closureUrl})
           created == revoked \cup {url}
       IN  /\ events' = Tail(events)
           /\ recordedUrl' = SetState(recordedUrl, url)
           /\ liveUrls' = IF recordedUrl' # recordedUrl
                          THEN RecordedUrlCleanup(created, recordedUrl)
                          ELSE created
           /\ artifact' = Blobs((url :> recordedChunksRef) @@ artifact,
                                liveUrls')
           /\ recorders' = [recorders EXCEPT ![k] = Finished]
           /\ isRecording' = SetState(isRecording, FALSE)
           /\ statusMessage' = SetState(statusMessage, "complete")
           /\ trackStops' = TracksStopped(trackStops, k)
           /\ lastOp' = [Op("onstop", IF recordedUrl' # recordedUrl
                                       /\ recordedUrl # 0
                                       THEN "replaced" ELSE "stored") EXCEPT
                            !.rec = k, !.signalled = recorders[k].stopSignal]
           /\ UNCHANGED <<slides, isPlaying, animationRef, playingRef,
                          recorderRef, recordedChunksRef, mounted, frame, now,
                          pending,
                   encoder>>

\* resetRecording; the button is disabled while recordedUrl is null
ResetRecording ==
    /\ mounted /\ recordedUrl # 0
    /\ recordedUrl' = 0
    /\ liveUrls' = RecordedUrlCleanup(
                      revokeObjectURL(liveUrls, recordedUrl), recordedUrl)
    /\ artifact' = Blobs(artifact, liveUrls')
    /\ lastOp' = Op("resetRecording",
                     IF isRecording THEN "whileRecording" ELSE "done")
    /\ UNCHANGED <<slides, isPlaying, isRecording, statusMessage,
                   animationRef, playingRef, recorderRef, recordedChunksRef,
                   mounted, frame, now, pending, recorders, trackStops,
                   events,
                   encoder>>

-----------------------------------------------------------------------------
(* Slide edits, and the effect on [drawFrame, stopPlayback] *)

\* cleanup of the effect: stopPlayback(), then the tracks of the stream of
\* recorderRef.current are stopped
EffectCleanup(size) ==
    /\ playingRef' = FALSE
    /\ isPlaying' = FALSE
    /\ pending' = MarkCancelled(StopPlaybackCancel(pending, animationRef))
    /\ now' = NowAfter(pending', now)
    /\ trackStops' = TracksStopped(trackStops, recorderRef)
    /\ recorders' = RecordersAfterTrackStop(recorders, recorderRef, size)
    /\ events' = EventsAfterHalt(events, recorders, recorderRef, size)

\* Slide ids are opaque and only compared for equality: the list is kept up
\* to a renaming of the ids, the slide at position i bearing the id i.
Renamed(sl) == [i \in 1..Len(sl) |-> [sl[i] EXCEPT !.id = i]]

\* setSlides with a new array: re-render, cleanup, then drawFrame(0)
SlidesChange(newSlides, size) ==
    /\ slides' = Renamed(newSlides)
    /\ EffectCleanup(size)
    /\ frame' = DrawFrame(frame, mounted, newSlides, 0)
    /\ lastOp' = [Op("setSlides", IF IsRecordingNow(recorders, recorderRef)
                         THEN "whileRecording" ELSE "done")
                    EXCEPT !.rec = recorderRef]
    /\ UNCHANGED <<isRecording, statusMessage, recordedUrl, animationRef,
                   recorderRef, recordedChunksRef, mounted, liveUrls,
                   artifact,
                   encoder>>

AddSlide(size) ==
    /\ mounted /\ Len(slides) < MaxSlides
    /\ SlidesChange(Append(slides, createSlide(slides)), size)

\* the duration field: updateSlide(id, {duration: max(1, Number(value) || 1)})
UpdateSlide(i, v, size) ==
    /\ mounted /\ i \in 1..Len(slides)
    /\ SlidesChange(updateSlideList(slides, slides[i].id, DurationFromInput(v)),
                    size)

\* the remove button of slide i, disabled when it is the only slide
RemoveSlide(i, size) ==
    /\ mounted /\ i \in 1..Len(slides) /\ Len(slides) # 1
    /\ SlidesChange(removeSlideList(slides, slides[i].id), size)

\* the move buttons of slide i, disabled at the ends of the list
MoveSlide(i, direction, size) ==
    /\ mounted /\ i \in 1..Len(slides)
    /\ i + direction \in 1..Len(slides)
    /\ SlidesChange(moveSlideList(slides, slides[i].id, direction),
                    size)

\* the component unmounts: both effect cleanups run
Unmount(size) ==
    /\ mounted
    /\ mounted' = FALSE
    /\ EffectCleanup(size)
    /\ liveUrls' = RecordedUrlCleanup(liveUrls, recordedUrl)
    /\ artifact' = Blobs(artifact, liveUrls')
    /\ lastOp' = [Op("unmount", IF IsRecordingNow(recorders, recorderRef)
                                THEN "whileRecording" ELSE "done")
                    EXCEPT !.rec = recorderRef]
    /\ UNCHANGED <<slides, isRecording, statusMessage, recordedUrl,
                   animationRef, recorderRef, recordedChunksRef, frame,
                   encoder>>

-----------------------------------------------------------------------------

Next ==
    \/ PlayPreview
    \/ StopPreview
    \/ \E t \in pending, dt \in TickDeltas : PreviewTick(t, dt)
    \/ \E t \in pending, dt \in TickDeltas :
          \E size \in LastSizes(recorders, t.rec) : CaptureTick(t, dt, size)
    \/ \E streamOk \in BOOLEAN, ctorOk \in BOOLEAN : RenderVideo(streamOk, ctorOk)
    \/ \E k \in Sessions, size \in FragSizes : TimesliceData(k, size)
    \/ OnDataAvailable
    \/ OnStop
    \/ ResetRecording
    \/ \E size \in LastSizes(recorders, recorderRef) : AddSlide(size)
    \/ \E i \in 1..MaxSlides, v \in DurationInputs :
          \E size \in LastSizes(recorders, recorderRef) : UpdateSlide(i, v, size)
    \/ \E i \in 1..MaxSlides :
          \E size \in LastSizes(recorders, recorderRef) : RemoveSlide(i, size)
    \/ \E i \in 1..MaxSlides, d \in {-1, 1} :
          \E size \in LastSizes(recorders, recorderRef) : MoveSlide(i, d, size)
    \/ \E size \in LastSizes(recorders, recorderRef) : Unmount(size)

Spec == Init /\ [][Next]_vars

-----------------------------------------------------------------------------
(* Claims on the capture session and the playback loop *)

\* C1: a renderVideo request made while a capture is recording changes
\* nothing: no stream, no encoder, no reset of the fragment list, no flag, no
\* status, so the first session goes on to the artifact it would have made.
C1_SecondCaptureRejected ==
    [][(lastOp'.op = "renderVideo" /\ isRecording) => UNCHANGED progVars]_vars

C1_Witness ==
    /\ lastOp.op = "renderVideo" /\ lastOp.out = "rejected"
    /\ isRecording /\ IsRecordingNow(recorders, recorderRef)
    /\ \E t \in pending : t.kind = "capture"

\* C2: at most one refresh callback is pending at any time, across the
\* preview loop and the capture loop.
C2_OnePendingTick == Cardinality(pending) <= 1

C2_Witness ==
    /\ lastOp.op = "renderVideo" /\ lastOp.out = "startedOverPreview"
    /\ \E t \in pending : t.kind = "capture"

\* C3: a step of a loop that stopPlayback has cancelled renders no frame,
\* schedules no further step and does not run its completion action.
C3_CancelledLoopIsSilent ==
    (lastOp.op = "tick" /\ lastOp.stale) =>
        ~lastOp.rendered /\ ~lastOp.scheduled /\ ~lastOp.completed

C3_Witness ==
    /\ lastOp.op = "stopPlayback" /\ lastOp.out = "cancelled"
    /\ ~playingRef /\ pending = {}

\* C4: recorder.onstop runs only after the capture loop has called
\* recorder.stop() on that recorder.
C4_FinalizeOnlyAfterStopSignal ==
    lastOp.op = "onstop" => lastOp.signalled

\* C5: the tracks of a session's stream are stopped at most once.
C5_TracksStoppedOnce == \A k \in Sessions : trackStops[k] <= 1

\* C6: when the encoder cannot be constructed, renderVideo ends with the
\* tracks of the new stream stopped, isRecording, isPlaying and the liveness
\* flag false, the error status set, no callback pending and no artifact made.
C6_EncoderFailureCleansUp ==
    [][(lastOp'.op = "renderVideo" /\ lastOp'.out = "encoderFailed")
        => /\ lastOp'.stops = 1
           /\ ~isRecording' /\ ~isPlaying' /\ ~playingRef'
           /\ statusMessage' = "unsupported"
           /\ pending' = {}
           /\ recordedUrl' = recordedUrl /\ liveUrls' = liveUrls
           /\ artifact' = artifact /\ events' = events]_vars

C6_Witness ==
    /\ lastOp.op = "renderVideo" /\ lastOp.out = "encoderFailed"
    /\ lastOp.stops = 1 /\ statusMessage = "unsupported"

\* C7: a failure to obtain the stream or to construct the encoder never
\* leaves renderVideo as an uncaught exception.
C7_AcquisitionFailuresCaught ==
    lastOp.op = "renderVideo" => lastOp.out # "uncaught"

\* C8: at most one object URL is live; while mounted it is the retained one
\* (none after Reset), and after unmount the retained one is released.
C8_OneLiveArtifact ==
    /\ Cardinality(liveUrls) <= 1
    /\ mounted => liveUrls = (IF recordedUrl = 0 THEN {} ELSE {recordedUrl})
    /\ ~mounted => recordedUrl \notin liveUrls

C8_Witness ==
    /\ lastOp.op = "onstop" /\ lastOp.out = "replaced"
    /\ liveUrls = {recordedUrl} /\ artifact[recordedUrl] # <<>>

NonEmptyFragments(frags) == SelectSeq(frags, LAMBDA f : f.size > 0)

\* C9: the Blob made by onstop holds exactly the non-empty fragments the
\* encoder of that session emitted, in the order of emission.
C9_ArtifactIsSessionFragments ==
    [][(lastOp'.op = "onstop" /\ events # <<>> /\ events' = Tail(events))
        => \E url \in liveUrls' \ liveUrls :
              artifact'[url] =
                 NonEmptyFragments(recorders[Head(events).rec].emitted)]_vars

C9_Witness ==
    /\ lastOp.op = "onstop" /\ lastOp.out = "replaced"
    /\ artifact[recordedUrl] # <<>> /\ artifact[recordedUrl][1].seq = 2

\* the display refresh runs a requested callback
DeliverTick ==
    \/ \E t \in pending, dt \in TickDeltas : PreviewTick(t, dt)
    \/ \E t \in pending, dt \in TickDeltas :
          \E size \in LastSizes(recorders, t.rec) : CaptureTick(t, dt, size)

\* Requested callbacks keep being run, and the events the encoder has fired
\* keep being handled.
SpecLive ==
    /\ Spec
    /\ WF_vars(DeliverTick)
    /\ WF_vars(OnDataAvailable)
    /\ WF_vars(OnStop)

\* the capture session of the mounted component is in Recording
SessionRecording == mounted /\ isRecording

FinalStep(op) == op.op = "tick" /\ op.out \in {"looped", "finished"}

FinalFrame(sl) == FrameMap(sl, Timeline(sl).totalDurationMs - 1)

\* C15: a loop step with elapsed >= totalDurationMs renders the final frame
\* (elapsed = totalDurationMs - 1), once; a looping run then takes now as its
\* start and schedules exactly one further step; a one-shot run schedules no
\* further step and runs its completion action (recorder.stop() for a
\* capture), which it had not run before.
C15_FinalStep ==
    [][FinalStep(lastOp') =>
        \E t \in pending :
            /\ lastOp'.rendered /\ frame' = FinalFrame(t.slides)
            /\ IF t.loop
               THEN /\ lastOp'.scheduled /\ ~lastOp'.completed
                    /\ \E u \in pending' :
                          pending' = {u} /\ u.start = now' /\ u.loop
                    /\ playingRef'
               ELSE /\ lastOp'.completed /\ ~lastOp'.scheduled
                    /\ pending' = {} /\ ~playingRef'
                    /\ ~recorders[t.rec].stopSignal
                    /\ recorders'[t.rec].stopSignal]_vars

C15_Witness ==
    /\ FinalStep(lastOp) /\ lastOp.out = "finished" /\ lastOp.rec # 0
    /\ recorders[lastOp.rec].stopSignal /\ pending = {}
    /\ frame = FinalFrame(slides)

\* the step is the handling of the stop event of a recorder
StopHandled == lastOp'.op = "onstop" /\ events # <<>> /\ events' = Tail(events)

\* C19: when the encoder's stop event has been handled, a new artifact
\* handle is stored as the retained artifact, the handle retained before is
\* released, isRecording is false, the status is 'complete', and the tracks
\* of that session's stream are stopped.
C19_StopEventFinalizes ==
    [][StopHandled =>
        /\ recordedUrl' \in liveUrls' \ liveUrls
        /\ recordedUrl # 0 => recordedUrl \notin liveUrls'
        /\ ~isRecording' /\ statusMessage' = "complete"
        /\ trackStops'[Head(events).rec] >= 1]_vars

\* C20: after every handler the displayed isPlaying equals the liveness flag
\* playingRef, and the liveness flag is true if and only if exactly one
\* refresh callback is pending.
C20_FlagsAgreeWithScheduler ==
    /\ isPlaying = playingRef
    /\ playingRef <=> Cardinality(pending) = 1

C20_Witness ==
    /\ lastOp.op = "renderVideo" /\ lastOp.out = "encoderFailed"
    /\ ~isPlaying /\ ~playingRef /\ pending = {}

\* the step is a change of the slide list made while a loop is running
EditDuringLoop == lastOp'.op = "setSlides" /\ playingRef

\* the step is a refresh callback that renders a frame
TickRenders == lastOp'.op = "tick" /\ lastOp'.rendered

\* C21: a change of the slide list made while a preview or capture loop is
\* running clears the liveness flag and isPlaying, cancels the pending
\* callback and stops the tracks of the current encoder's stream; and every
\* callback that renders does so with the timeline of the current slide list.
C21_EditCancelsLoop ==
    [][/\ EditDuringLoop =>
            /\ ~playingRef' /\ ~isPlaying' /\ pending' = {}
            /\ recorderRef # 0 => trackStops'[recorderRef] >= 1
       /\ TickRenders =>
            \E t \in pending :
                /\ Timeline(t.slides) = Timeline(slides)
                /\ frame' \in {FrameMap(slides, now' - t.start),
                                FinalFrame(slides)}
      ]_vars

C21_Witness ==
    /\ lastOp.op = "setSlides" /\ lastOp.out = "whileRecording"
    /\ ~playingRef /\ ~isPlaying /\ pending = {}
    /\ trackStops[recorderRef] = 1

-----------------------------------------------------------------------------
(* The slide callbacks called with any id: removeSlide and moveSlide with  *)
(* the id of a slide of the list or with an id no slide has, in any order  *)
(* with the other slide edits, while the preview is stopped or running     *)

\* ids given to the callbacks: those of the slides and one that is unknown
CallIds == 1..(MaxSlides + 1)

\* the commit of a new slides array: re-render, cleanup, then drawFrame(0)
SetSlides(newSlides, size) ==
    /\ slides' = Renamed(newSlides)
    /\ EffectCleanup(size)
    /\ frame' = DrawFrame(frame, mounted, newSlides, 0)
    /\ UNCHANGED <<isRecording, statusMessage, recordedUrl, animationRef,
                   recorderRef, recordedChunksRef, mounted, liveUrls,
                   artifact, encoder>>

\* removeSlide(id): the updater returns prev itself when one slide is left,
\* and a filtered copy otherwise, also when no slide has the id
RemoveSlideCall(id, size) ==
    /\ mounted
    /\ IF Len(slides) <= 1
       THEN /\ lastOp' = Op("removeSlide", "lastSlide")
            /\ UNCHANGED progVars
       ELSE IF id \notin SlideIds(slides)
       THEN /\ SetSlides(removeSlideList(slides, id), size)
            /\ lastOp' = Op("removeSlide", "unknownId")
       ELSE SlidesChange(removeSlideList(slides, id), size)

\* moveSlide(id, direction): the updater returns prev itself when no slide
\* has the id or the target is outside the list
MoveSlideCall(id, direction, size) ==
    /\ mounted
    /\ LET index == FindIndex(slides, id)
           target == index + direction
       IN  IF index < 1
           THEN /\ lastOp' = Op("moveSlide", "unknownId")
                /\ UNCHANGED progVars
           ELSE IF target < 1 \/ target > Len(slides)
           THEN /\ lastOp' = Op("moveSlide", "outOfRange")
                /\ UNCHANGED progVars
           ELSE SlidesChange(moveSlideList(slides, id, direction), size)

NextSlides ==
    \/ \E size \in LastSizes(recorders, recorderRef) : AddSlide(size)
    \/ \E i \in 1..MaxSlides, v \in DurationInputs :
          \E size \in LastSizes(recorders, recorderRef) : UpdateSlide(i, v, size)
    \/ PlayPreview
    \/ StopPreview
    \/ \E t \in pending, dt \in TickDeltas : PreviewTick(t, dt)
    \/ \E id \in CallIds :
          \E size \in LastSizes(recorders, recorderRef) :
              RemoveSlideCall(id, size)
    \/ \E id \in CallIds, d \in {-1, 1} :
          \E size \in LastSizes(recorders, recorderRef) :
              MoveSlideCall(id, d, size)

SpecSlides == Init /\ [][NextSlides]_vars

\* one second, in the unit of Slide.duration
OneSecond == 2000

\* the call that has just run named no slide, or moved a slide off the list
OffList(op) ==
    /\ op.op \in {"removeSlide", "moveSlide"}
    /\ op.out \in {"unknownId", "outOfRange"}

-----------------------------------------------------------------------------
(* The handlers on any slide list: the component with the slide list it    *)
(* is given, the empty one included                                        *)

InitAnyList ==
    /\ slides \in {<<>>, INITIAL_SLIDES}
    /\ isPlaying = FALSE
    /\ isRecording = FALSE
    /\ statusMessage = "none"
    /\ recordedUrl = 0
    /\ animationRef = 0
    /\ playingRef = FALSE
    /\ recorderRef = 0
    /\ recordedChunksRef = <<>>
    /\ mounted = TRUE
    /\ frame = DrawFrame(Blank, TRUE, slides, 0)
    /\ now = 0
    /\ pending = {}
    /\ recorders = [k \in Sessions |-> NoRecorder]
    /\ trackStops = [k \in Sessions |-> 0]
    /\ events = <<>>
    /\ liveUrls = {}
    /\ artifact = [u \in {} |-> <<>>]
    /\ encoder = FullEncoder
    /\ lastOp = Op("mount", "done")

SpecAnyList == InitAnyList /\ [][Next]_vars

\* the status messages the handlers set for their other outcomes, and null
OtherStatuses == {"none", "notReady", "rendering", "complete", "unsupported"}

\* the request that has just run was made with an empty slide list
RejectedEmpty(op) ==
    /\ op.op \in {"runTimeline", "renderVideo"} /\ op.out = "rejected"
    /\ Len(slides) = 0

\* C17: a playback or capture request made with an empty slide list starts
\* no loop, creates no stream and no encoder, changes no flag, and is
\* surfaced as a status message.
C17_EmptyListRejectedWithStatus ==
    [][RejectedEmpty(lastOp') =>
        /\ pending' = pending /\ recorders' = recorders
        /\ recorderRef' = recorderRef
        /\ isPlaying' = isPlaying /\ isRecording' = isRecording
        /\ playingRef' = playingRef
        /\ statusMessage' \notin OtherStatuses]_vars

-----------------------------------------------------------------------------
(* Format negotiation on its own: selectMimeType in every browser          *)

InitMime ==
    /\ slides = INITIAL_SLIDES
    /\ isPlaying = FALSE
    /\ isRecording = FALSE
    /\ statusMessage = "none"
    /\ recordedUrl = 0
    /\ animationRef = 0
    /\ playingRef = FALSE
    /\ recorderRef = 0
    /\ recordedChunksRef = <<>>
    /\ mounted = TRUE
    /\ frame = DrawFrame(Blank, TRUE, slides, 0)
    /\ now = 0
    /\ pending = {}
    /\ recorders = [k \in Sessions |-> NoRecorder]
    /\ trackStops = [k \in Sessions |-> 0]
    /\ events = <<>>
    /\ liveUrls = {}
    /\ artifact = [u \in {} |-> <<>>]
    /\ encoder \in Encoders
    /\ lastOp = Op("mount", "done")

\* a call of selectMimeType()
SelectMimeType ==
    /\ lastOp' = Op("selectMimeType", selectMimeType(encoder))
    /\ UNCHANGED progVars

NextMime == SelectMimeType

SpecMime == InitMime /\ [][NextMime]_vars

\* the candidates the encoder service reports as supported
Supported(enc) == {i \in 1..Len(Candidates) : enc.answers[i] = "true"}

\* C18: selectMimeType returns the first candidate of the preference list
\* that the encoder service reports as supported, undefined when there is
\* none or when the service is unavailable, and never throws: a probe that
\* throws counts as not supported.
C18_FirstSupportedFormat ==
    lastOp.op = "selectMimeType" =>
        /\ lastOp.out # "thrown"
        /\ lastOp.out =
              (IF ~encoder.available \/ Supported(encoder) = {}
               THEN "undefined"
               ELSE Candidates[CHOOSE i \in Supported(encoder) :
                                  \A j \in Supported(encoder) : i <= j])

C18_Witness ==
    /\ lastOp.op = "selectMimeType" /\ encoder.available
    /\ encoder.answers = <<"throws", "true", "true">>
    /\ lastOp.out = "video/webm;codecs=vp8"

-----------------------------------------------------------------------------
(* The Frame Mapper on its own: drawFrame applied to slide lists the       *)
(* Timeline Builder accepts, at times around the segment boundaries        *)

MapMaxSlides == 3

\* slide durations in half milliseconds: -1 s, 0, 0.5 ms, 1.5 ms, 1 s, 2 s,
\* 4 s
FrameDurations == {-2000, 0, 1, 3, 2000, 4000, 8000}

FrameSlideLists ==
    UNION {[1..n -> FrameDurations] : n \in 1..MapMaxSlides}

SlidesOf(durations) ==
    [i \in 1..Len(durations) |-> [id |-> i, duration |-> durations[i]]]

\* the end of segment i on the timeline
SegmentEnd(tl, i) == SumMs(SubSeq(tl.segments, 1, i))

ProbeTimes(sl) ==
    LET tl == Timeline(sl)
        marks == {0, tl.totalDurationMs - 1} \cup
                 {SegmentEnd(tl, i) : i \in 1..Len(sl)}
        middles == {SegmentEnd(tl, i - 1) + tl.segments[i].durationMs \div 2 :
                       i \in 1..Len(sl)}
    IN  UNION {{m - 1, m, m + 1} : m \in marks} \cup middles

InitFrame ==
    /\ \E durations \in FrameSlideLists : slides = SlidesOf(durations)
    /\ isPlaying = FALSE
    /\ isRecording = FALSE
    /\ statusMessage = "none"
    /\ recordedUrl = 0
    /\ animationRef = 0
    /\ playingRef = FALSE
    /\ recorderRef = 0
    /\ recordedChunksRef = <<>>
    /\ mounted = TRUE
    /\ frame = DrawFrame(Blank, TRUE, slides, 0)
    /\ now = 0
    /\ pending = {}
    /\ recorders = [k \in Sessions |-> NoRecorder]
    /\ trackStops = [k \in Sessions |-> 0]
    /\ events = <<>>
    /\ liveUrls = {}
    /\ artifact = [u \in {} |-> <<>>]
    /\ encoder = FullEncoder
    /\ lastOp = Op("mount", "done")

\* drawFrame(elapsedMs) at clock reading elapsedMs of a loop started at 0
FrameProbe(elapsedMs) ==
    /\ now' = elapsedMs
    /\ frame' = DrawFrame(frame, mounted, slides, elapsedMs)
    /\ lastOp' = [Op("drawFrame", "painted") EXCEPT !.rendered = TRUE]
    /\ UNCHANGED <<slides, isPlaying, isRecording, statusMessage, recordedUrl,
                   animationRef, playingRef, recorderRef, recordedChunksRef,
                   mounted, pending, recorders, trackStops, events, liveUrls,
                   artifact,
                   encoder>>

NextFrame == \E elapsedMs \in ProbeTimes(slides) : FrameProbe(elapsedMs)

SpecFrame == InitFrame /\ [][NextFrame]_vars

LastSegmentMs(sl) == Timeline(sl).segments[Len(sl)].durationMs

ProbedAtLastMs ==
    lastOp.op = "drawFrame" /\ now = Timeline(slides).totalDurationMs - 1

\* Slide invariant of the data model: duration > 0
ValidSlides(sl) == \A i \in 1..Len(sl) : sl[i].duration > 0

Clamp(lo, x, hi) == IF x < lo THEN lo ELSE IF x > hi THEN hi ELSE x

ContractMap(sl, elapsedMs) ==
    LET tl == Timeline(sl)
        n == Len(tl.segments)
        c == Clamp(0, elapsedMs, tl.totalDurationMs - 1)
        reaching == {i \in 1..n : SegmentEnd(tl, i) >= c}
        i == IF reaching = {} THEN n
             ELSE CHOOSE j \in reaching : \A k \in reaching : j <= k
    IN  [index |-> i - 1,
         num |-> c - SegmentEnd(tl, i - 1),
         den |-> tl.segments[i].durationMs]

Probed == lastOp.op = "drawFrame"

\* a time on the boundary between segment i and segment i + 1
OnBoundary(sl, t, i) ==
    i \in 1..(Len(sl) - 1) /\ t = SegmentEnd(Timeline(sl), i)

\* slides [4 s, 2 s]
FourTwo == SlidesOf(<<8000, 4000>>)

\* C11: the frame painted for elapsed time t is that of the first segment
\* whose cumulative end is >= the clamped time (the last one if none), with
\* progress (clamped time - sum of the earlier durations) / its duration; a
\* time on a boundary maps to the earlier segment with progress 1, and slides
\* [4 s, 2 s] at 5000 ms map to index 1 with progress 1/2.
C11_FrameMapContract ==
    Probed =>
        /\ frame = ContractMap(slides, now)
        /\ \A i \in 1..Len(slides) :
              OnBoundary(slides, now, i) =>
                  frame.index = i - 1 /\ frame.num = frame.den
        /\ (slides = FourTwo /\ now = 5000) =>
              frame.index = 1 /\ 2 * frame.num = frame.den

C11_Witness ==
    /\ Probed /\ slides = FourTwo /\ now = 4000
    /\ frame = [index |-> 0, num |-> 4000, den |-> 4000]

\* C13: for every non-empty timeline and every elapsed time, negative or
\* beyond the total included, the index is within the segment range and the
\* progress is within [0, 1].
C13_IndexAndProgressInRange ==
    Probed =>
        /\ frame.index \in 0..(Len(slides) - 1)
        /\ frame.den > 0
        /\ 0 <= frame.num /\ frame.num <= frame.den

C13_Witness ==
    /\ Probed /\ Len(slides) = 2
    /\ now = Timeline(slides).totalDurationMs + 1
    /\ frame.index = 1 /\ frame.num = frame.den - 1

-----------------------------------------------------------------------------
(* The Timeline Builder on its own: every slide list, the empty one and    *)
(* lists with zero or negative durations included                          *)

TimelineSlideLists ==
    UNION {[1..n -> FrameDurations] : n \in 0..MapMaxSlides}

InitTimeline ==
    /\ \E durations \in TimelineSlideLists : slides = SlidesOf(durations)
    /\ isPlaying = FALSE
    /\ isRecording = FALSE
    /\ statusMessage = "none"
    /\ recordedUrl = 0
    /\ animationRef = 0
    /\ playingRef = FALSE
    /\ recorderRef = 0
    /\ recordedChunksRef = <<>>
    /\ mounted = TRUE
    /\ frame = DrawFrame(Blank, TRUE, slides, 0)
    /\ now = 0
    /\ pending = {}
    /\ recorders = [k \in Sessions |-> NoRecorder]
    /\ trackStops = [k \in Sessions |-> 0]
    /\ events = <<>>
    /\ liveUrls = {}
    /\ artifact = [u \in {} |-> <<>>]
    /\ encoder = FullEncoder
    /\ lastOp = Op("mount", "done")

NextTimeline == \E elapsedMs \in ProbeTimes(slides) : FrameProbe(elapsedMs)

SpecTimeline == InitTimeline /\ [][NextTimeline]_vars

\* C12: for every timeline, elapsed time 0 and every negative elapsed time
\* map to segment index 0 with progress 0 (nothing is painted, and nothing
\* fails, when there is no slide).
C12_ZeroMapsToStart ==
    (Probed /\ now <= 0) => frame.index = 0 /\ frame.num = 0 /\ frame.den > 0

C12_Witness ==
    /\ Probed /\ now = -1 /\ Len(slides) = 2
    /\ frame.index = 0 /\ frame.num = 0

\* r = Math.round(x), x being d half units: r - 1/2 <= x < r + 1/2
IsRounded(r, d) == 2 * r - 1 <= d /\ d < 2 * r + 1

\* ms = max(1, round(duration * 1000)), duration being d half milliseconds
IsSegmentMs(ms, d) ==
    \/ ms >= 1 /\ IsRounded(ms, d)
    \/ ms = 1 /\ d < 1

RECURSIVE SumOf(_)
SumOf(ns) == IF ns = <<>> THEN 0 ELSE Head(ns) + SumOf(Tail(ns))

\* C14: the timeline has one segment per slide, in slide order, of
\* max(1, round(duration * 1000)) ms; totalDurationMs is the sum of the
\* durations its segments hold, and 1 for the empty list; a zero or negative
\* slide duration gives a segment of 1 ms.
C14_TimelineOfSlides ==
    LET tl == Timeline(slides)
        n == Len(slides)
    IN  /\ Len(tl.segments) = n
        /\ \A i \in 1..n :
              /\ tl.segments[i].id = slides[i].id
              /\ IsSegmentMs(tl.segments[i].durationMs, slides[i].duration)
              /\ slides[i].duration <= 0 => tl.segments[i].durationMs = 1
        /\ tl.totalDurationMs =
              (IF n = 0 THEN 1
               ELSE SumOf([i \in 1..n |-> tl.segments[i].durationMs]))

C14_Witness ==
    /\ Probed /\ Len(slides) = 3
    /\ slides[1].duration = 0 /\ slides[2].duration = -2000
    /\ slides[3].duration = 3
    /\ Timeline(slides).totalDurationMs = 4

====
